---- MODULE Spec2Model ----
(***************************************************************************)
(* Model of pymfe/general.py, the ``General`` group of metafeatures        *)
(* (class MFEGeneral).  Every ft_ method is a pure function of the         *)
(* attribute matrix X, its numeric / categorical views N and C, or the     *)
(* label vector y.  The model keeps one dataset and the last method that   *)
(* was invoked on it together with what that invocation returned or        *)
(* raised.                                                                 *)
(*                                                                         *)
(* Python's ``/`` on two ints and numpy's true_divide on an int64 array    *)
(* and an int both give the IEEE-754 binary64 value nearest to the exact   *)
(* quotient (ties to even).  The model keeps that rounding: a float is a   *)
(* 53-bit significand and a binary exponent, computed with multi-limb      *)
(* integers because a significand does not fit a machine integer of the    *)
(* model checker.                                                          *)
(***************************************************************************)
EXTENDS Integers, Sequences, FiniteSets

(***************************************************************************)
(* Multi-limb naturals: eight limbs of LimbBits bits, least significant    *)
(* first (112 bits, enough for the product of two significands).  The      *)
(* carry chains are written out limb by limb.                              *)
(***************************************************************************)
\* bits of a limb: the product of two limbs fits a 32-bit integer
LimbBits == 14
B == 2 ^ LimbBits
\* bits of the significand of a binary64 float
MantBits == 53
\* four-bit steps of a division: 56 quotient bits, three more than kept
DivDigits == (MantBits + 3) \div 4

Pow2(k) == 2 ^ k

BZero == <<0, 0, 0, 0, 0, 0, 0, 0>>

\* n < B * B
BFromInt(n) == <<n % B, n \div B, 0, 0, 0, 0, 0, 0>>

\* limb i of a, zero outside the eight limbs
BLimb(a, i) == IF i >= 1 /\ i <= 8 THEN a[i] ELSE 0

BAdd(a, b) ==
    LET s1 == a[1] + b[1]
        s2 == a[2] + b[2] + (s1 \div B)
        s3 == a[3] + b[3] + (s2 \div B)
        s4 == a[4] + b[4] + (s3 \div B)
        s5 == a[5] + b[5] + (s4 \div B)
        s6 == a[6] + b[6] + (s5 \div B)
        s7 == a[7] + b[7] + (s6 \div B)
        s8 == a[8] + b[8] + (s7 \div B)
    IN  <<s1 % B, s2 % B, s3 % B, s4 % B, s5 % B, s6 % B, s7 % B, s8 % B>>

\* a - b for a >= b; \div rounds down, so a negative limb difference
\* borrows one from the next limb
BSub(a, b) ==
    LET s1 == a[1] - b[1]
        s2 == a[2] - b[2] + (s1 \div B)
        s3 == a[3] - b[3] + (s2 \div B)
        s4 == a[4] - b[4] + (s3 \div B)
        s5 == a[5] - b[5] + (s4 \div B)
        s6 == a[6] - b[6] + (s5 \div B)
        s7 == a[7] - b[7] + (s6 \div B)
        s8 == a[8] - b[8] + (s7 \div B)
    IN  <<s1 % B, s2 % B, s3 % B, s4 % B, s5 % B, s6 % B, s7 % B, s8 % B>>

\* a >= b: the subtraction a - b leaves no borrow
BGe(a, b) ==
    LET s1 == a[1] - b[1]
        s2 == a[2] - b[2] + (s1 \div B)
        s3 == a[3] - b[3] + (s2 \div B)
        s4 == a[4] - b[4] + (s3 \div B)
        s5 == a[5] - b[5] + (s4 \div B)
        s6 == a[6] - b[6] + (s5 \div B)
        s7 == a[7] - b[7] + (s6 \div B)
        s8 == a[8] - b[8] + (s7 \div B)
    IN  s8 >= 0

\* a * d for a limb d < B
BMulLimb(a, d) ==
    LET s1 == a[1] * d
        s2 == a[2] * d + (s1 \div B)
        s3 == a[3] * d + (s2 \div B)
        s4 == a[4] * d + (s3 \div B)
        s5 == a[5] * d + (s4 \div B)
        s6 == a[6] * d + (s5 \div B)
        s7 == a[7] * d + (s6 \div B)
        s8 == a[8] * d + (s7 \div B)
    IN  <<s1 % B, s2 % B, s3 % B, s4 % B, s5 % B, s6 % B, s7 % B, s8 % B>>

\* a * B^k
BShlLimbs(a, k) ==
    <<BLimb(a, 1 - k), BLimb(a, 2 - k), BLimb(a, 3 - k), BLimb(a, 4 - k), BLimb(a, 5 - k), BLimb(a, 6 - k), BLimb(a, 7 - k), BLimb(a, 8 - k)>>

\* a * b for b < B^4
BMul(a, b) ==
    BAdd(BAdd(BMulLimb(a, b[1]), BShlLimbs(BMulLimb(a, b[2]), 1)),
         BAdd(BShlLimbs(BMulLimb(a, b[3]), 2), BShlLimbs(BMulLimb(a, b[4]), 3)))

\* a * 2^s
BShl(a, s) == BShlLimbs(BMulLimb(a, Pow2(s % LimbBits)), s \div LimbBits)

\* floor(a / 2^s)
BShr(a, s) ==
    LET q == s \div LimbBits
        r == s % LimbBits
        f(i) == (BLimb(a, i + q) \div Pow2(r))
                + (BLimb(a, i + q + 1) % Pow2(r)) * Pow2(LimbBits - r)
    IN  <<f(1), f(2), f(3), f(4), f(5), f(6), f(7), f(8)>>

\* number of significant bits of a limb
IntBitLen(n) == CHOOSE k \in 0..LimbBits : n < Pow2(k) /\ (k = 0 \/ n >= Pow2(k - 1))

\* number of significant bits of a (0 for zero)
BBitLen(a) ==
    IF a = BZero THEN 0
    ELSE LET t == CHOOSE i \in 1..8 : a[i] # 0 /\ \A j \in (i + 1)..8 : a[j] = 0
         IN  (t - 1) * LimbBits + IntBitLen(a[t])

\* bit i of a, bit 0 the least significant
BBit(a, i) == (a[(i \div LimbBits) + 1] \div Pow2(i % LimbBits)) % 2

\* some bit below bit s is set
BLowNonZero(a, s) == BShl(BShr(a, s), s) # a

BPow2(k) == BShl(BFromInt(1), k)

\* one bit of a quotient: t is taken off r when it fits
BTakeOff(r, t) == IF BGe(r, t) THEN [r |-> BSub(r, t), bit |-> 1] ELSE [r |-> r, bit |-> 0]

\* one step of schoolbook long division, four bits at a time: st.r < d is
\* the running remainder, st.q the quotient so far, st.k the steps still to
\* do
BDivStep(st, d) ==
    LET b3 == BTakeOff(BMulLimb(st.r, 16), BMulLimb(d, 8))
        b2 == BTakeOff(b3.r, BMulLimb(d, 4))
        b1 == BTakeOff(b2.r, BMulLimb(d, 2))
        b0 == BTakeOff(b1.r, d)
    IN  [r |-> b0.r,
         q |-> BAdd(BMulLimb(st.q, 16),
                    BFromInt(8 * b3.bit + 4 * b2.bit + 2 * b1.bit + b0.bit)),
         k |-> st.k - 1]

RECURSIVE BLongDiv(_, _)
\* quotient and remainder of st.r * 16^st.k by d, appended to the digits st.q
BLongDiv(st, d) == IF st.k = 0 THEN st ELSE BLongDiv(BDivStep(st, d), d)

(***************************************************************************)
(* binary64 values.  A finite non-negative float is m * 2^e with           *)
(* 2^52 <= m < 2^53, or zero (m = 0, e = 0).  The magnitudes reached here  *)
(* are far from the subnormal and overflow ranges.                         *)
(***************************************************************************)
FZero == [k |-> "float", m |-> BZero, e |-> 0]
NaN == [k |-> "nan"]

IsFloat(v) == v.k = "float"
IsNaN(v) == v.k = "nan"

\* the float nearest to n * 2^e (+ a positive amount below one unit of n
\* when sticky), ties to even; n > 0
RoundNearestEven(n, e, sticky) ==
    LET len == BBitLen(n)
    IN  IF len <= MantBits
        THEN [k |-> "float", m |-> BShl(n, MantBits - len), e |-> e - (MantBits - len)]
        ELSE LET s    == len - MantBits
                 q    == BShr(n, s)
                 half == BBit(n, s - 1) = 1
                 low  == sticky \/ BLowNonZero(n, s - 1)
                 up   == half /\ (low \/ BBit(q, 0) = 1)
                 q1   == IF up THEN BAdd(q, BFromInt(1)) ELSE q
             IN  IF BBitLen(q1) > MantBits
                 THEN [k |-> "float", m |-> BShr(q1, 1), e |-> e + s + 1]
                 ELSE [k |-> "float", m |-> q1, e |-> e + s]

\* int -> float, exact for the small ints used here
FromInt(n) == IF n = 0 THEN FZero ELSE RoundNearestEven(BFromInt(n), 0, FALSE)

\* x / y in binary64 for finite x >= 0, y > 0
FDiv(x, y) ==
    IF x.m = BZero THEN FZero
    ELSE LET first == BGe(x.m, y.m)
             r0    == IF first THEN BSub(x.m, y.m) ELSE x.m
             q0    == IF first THEN BFromInt(1) ELSE BZero
             d     == BLongDiv([r |-> r0, q |-> q0, k |-> DivDigits], y.m)
         IN  RoundNearestEven(d.q, x.e - y.e - 4 * DivDigits, d.r # BZero)

\* x * y in binary64 for finite x, y >= 0
FMul(x, y) ==
    IF x.m = BZero \/ y.m = BZero THEN FZero
    ELSE RoundNearestEven(BMul(x.m, y.m), x.e + y.e, FALSE)

\* x + y in binary64 for finite x, y >= 0
FAdd(x, y) ==
    IF x.m = BZero THEN y
    ELSE IF y.m = BZero THEN x
    ELSE LET lo == IF x.e <= y.e THEN x.e ELSE y.e
         IN  RoundNearestEven(BAdd(BShl(x.m, x.e - lo), BShl(y.m, y.e - lo)), lo, FALSE)

One == FromInt(1)

(***************************************************************************)
(* Python values a method hands back: an int, a float, the float nan, an   *)
(* ndarray of floats, or a raised exception.                               *)
(***************************************************************************)
PyNone == [k |-> "none"]
PyInt(n) == [k |-> "int", v |-> n]
Array(vs) == [k |-> "array", v |-> vs]
Raise(exc) == [k |-> "raise", exc |-> exc]

IsInt(v) == v.k = "int"
IsArray(v) == v.k = "array"

\* a / b on two Python ints: ZeroDivisionError for b = 0, otherwise both are
\* converted (exactly, at these sizes) to float and divided
PyTrueDiv(a, b) ==
    IF b = 0 THEN Raise("ZeroDivisionError") ELSE FDiv(FromInt(a), FromInt(b))

(***************************************************************************)
(* ndarrays.  A 2-D array keeps its shape next to its rows, so that an     *)
(* array without rows still has a column count.                            *)
(***************************************************************************)
\* A.shape[0] and A.shape[1] (tuples count from 1 here)
Shape0(A) == A.shape[1]
Shape1(A) == A.shape[2]

\* y.size of a 1-D array
Size(y) == Len(y)

\* column j of A as a 1-D array
Column(A, j) == [i \in 1..Shape0(A) |-> A.data[i][j]]

Range(f) == {f[i] : i \in DOMAIN f}

RECURSIVE SortedSeq(_)
\* the elements of a finite set of ints in increasing order
SortedSeq(S) ==
    IF S = {} THEN <<>>
    ELSE LET lo == CHOOSE x \in S : \A z \in S : x <= z
         IN  <<lo>> \o SortedSeq(S \ {lo})

\* the distinct elements of a in the order they first occur
NpUnique_FirstSeen(a) ==
    LET idx == {k \in DOMAIN a : \A i \in 1..(k - 1) : a[i] # a[k]}
    IN  [n \in 1..Cardinality(idx) |->
            a[CHOOSE j \in idx : Cardinality({i \in idx : i < j}) = n - 1]]

\* np.unique(a): the sorted distinct elements of a 1-D array
NpUnique(a) == SortedSeq(Range(a))

\* the second result of np.unique(a, return_counts=True)
NpUniqueCounts(a) ==
    LET u == NpUnique(a)
    IN  [i \in 1..Len(u) |-> Cardinality({k \in DOMAIN a : a[k] = u[i]})]

(***************************************************************************)
(* The methods of MFEGeneral.                                              *)
(***************************************************************************)
\* the two shape entries exchanged
ft_attr_to_inst_Inverted(X) == PyTrueDiv(Shape0(X), Shape1(X))

ft_attr_to_inst(X) == PyTrueDiv(Shape1(X), Shape0(X))

\* the guard looks at the numerator's count
ft_cat_to_num_GuardOnCat(C, N) ==
    IF Shape1(C) = 0 THEN NaN ELSE PyTrueDiv(Shape1(C), Shape1(N))

ft_cat_to_num(C, N) ==
    IF Shape1(N) = 0 THEN NaN ELSE PyTrueDiv(Shape1(C), Shape1(N))

\* the counts divided by the number of classes, freq.size
ft_freq_class_ByClasses(y) ==
    IF Size(y) = 0 THEN NaN
    ELSE LET freq == NpUniqueCounts(y)
         IN  Array([i \in 1..Len(freq) |-> FDiv(FromInt(freq[i]), FromInt(Len(freq)))])

ft_freq_class(y) ==
    IF Size(y) = 0 THEN NaN
    ELSE LET freq == NpUniqueCounts(y)
         IN  Array([i \in 1..Len(freq) |-> FDiv(FromInt(freq[i]), FromInt(Size(y)))])

ft_inst_to_attr(X) == PyTrueDiv(Shape0(X), Shape1(X))

\* the other axis
ft_nr_attr_Rows(X) == PyInt(Shape0(X))

ft_nr_attr(X) == PyInt(Shape1(X))

\* np.apply_along_axis raises ValueError when there is no column to iterate
\* over; func1d sees each column, an empty one when X has no rows
ft_nr_bin(X) ==
    IF Shape1(X) = 0 THEN Raise("ValueError")
    ELSE PyInt(Cardinality({j \in 1..Shape1(X) : Len(NpUnique(Column(X, j))) = 2}))

ft_nr_cat(C) == PyInt(Shape1(C))

\* the size of y itself
ft_nr_class_Size(y) == PyInt(Size(y))

ft_nr_class(y) == PyInt(Len(NpUnique(y)))

ft_nr_inst(X) == PyInt(Shape0(X))

ft_nr_num(N) == PyInt(Shape1(N))

\* the two arguments read in the order (N, C)
ft_num_to_cat_Swapped(C, N) ==
    IF Shape1(N) = 0 THEN NaN ELSE PyTrueDiv(Shape1(C), Shape1(N))

\* the quotient rounded down to a whole number, as ``/`` did on ints in
\* Python 2
ft_num_to_cat_Floor(C, N) ==
    IF Shape1(C) = 0 THEN NaN ELSE FromInt(Shape1(N) \div Shape1(C))

ft_num_to_cat(C, N) ==
    IF Shape1(C) = 0 THEN NaN ELSE PyTrueDiv(Shape1(N), Shape1(C))

(***************************************************************************)
(* Datasets.  The attribute partitioner lives outside general.py: each     *)
(* column carries a type tag and N / C are the columns of one tag, in      *)
(* their original order.                                                   *)
(***************************************************************************)
\* the indices of the columns tagged t, increasing
ColumnsOfType(tags, t) ==
    LET idx == {j \in DOMAIN tags : tags[j] = t}
    IN  [k \in 1..Cardinality(idx) |->
            CHOOSE j \in idx : Cardinality({i \in idx : i < j}) = k - 1]

PartitionView(X, tags, t) ==
    LET cols == ColumnsOfType(tags, t)
    IN  [shape |-> <<Shape0(X), Len(cols)>>,
         data  |-> [i \in 1..Shape0(X) |-> [j \in 1..Len(cols) |-> X.data[i][cols[j]]]]]

\* bounds of the enumerated datasets
MaxInst == 11
MaxNum == 11
MaxCat == 3
MaxSmallInst == 3
MaxSmallAttr == 3
MaxLabels == 4
MaxPerClass == 3
NumClasses == 3

ColumnPatterns == {"const", "alt0", "alt1", "cycle"}

\* the value in row i of a column of the given pattern
PatternValue(p, i) ==
    CASE p = "const" -> 5
      [] p = "alt0"  -> (i + 1) % 2
      [] p = "alt1"  -> i % 2
      [] p = "cycle" -> i % 3

\* the r x Len(pats) matrix whose column j follows pattern pats[j]
Matrix(r, pats) ==
    [shape |-> <<r, Len(pats)>>,
     data  |-> [i \in 1..r |-> [j \in 1..Len(pats) |-> PatternValue(pats[j], i)]]]

\* nNum numeric columns followed by nCat categorical ones
TagsOf(nNum, nCat) == [j \in 1..(nNum + nCat) |-> IF j <= nNum THEN "num" ELSE "cat"]

\* the two-valued patterns are tagged categorical, the others numeric
PatternTags(pats) ==
    [j \in 1..Len(pats) |-> IF pats[j] \in {"alt0", "alt1"} THEN "cat" ELSE "num"]

\* one label an instance, cycling through the classes
CyclicLabels(r) == [i \in 1..r |-> 1 + (i % NumClasses)]

RECURSIVE BlockLabels(_, _)
\* counts[c] times the label c, for c = 1, ..., k in this order
BlockLabels(counts, k) ==
    IF k = 0 THEN <<>>
    ELSE BlockLabels(counts, k - 1) \o [i \in 1..counts[k] |-> k]

VARIABLES X, N, C, y, called, ret

vars == <<X, N, C, y, called, ret>>

\* X with the given tags, partitioned, and labels y0; nothing invoked yet
Load(X0, tags, y0) ==
    /\ X = X0
    /\ N = PartitionView(X0, tags, "num")
    /\ C = PartitionView(X0, tags, "cat")
    /\ y = y0
    /\ called = "none"
    /\ ret = PyNone

\* datasets of every shape up to the bounds, with fixed contents
InitShapes ==
    \E r \in 0..MaxInst, nNum \in 0..MaxNum, nCat \in 0..MaxCat :
        Load(Matrix(r, [j \in 1..(nNum + nCat) |-> "cycle"]), TagsOf(nNum, nCat),
             CyclicLabels(r))

\* small datasets with every choice of column contents
InitColumns ==
    \E r \in 0..MaxSmallInst, c \in 0..MaxSmallAttr :
        \E pats \in [1..c -> ColumnPatterns] :
            Load(Matrix(r, pats), PatternTags(pats), CyclicLabels(r))

\* every short label vector, on a one-column dataset
InitLabels ==
    \E n \in 0..MaxLabels :
        \E y0 \in [1..n -> 1..NumClasses] :
            Load(Matrix(n, <<"cycle">>), TagsOf(1, 0), y0)

\* longer label vectors, one for each choice of the class sizes
InitLabelBlocks ==
    \E counts \in [1..NumClasses -> 0..MaxPerClass] :
        LET y0 == BlockLabels(counts, NumClasses)
        IN  Load(Matrix(Len(y0), <<"cycle">>), TagsOf(1, 0), y0)

Init == InitShapes \/ InitColumns \/ InitLabels \/ InitLabelBlocks

\* one invocation of a method on the loaded dataset
Invoke(name, value) ==
    /\ called = "none"
    /\ called' = name
    /\ ret' = value
    /\ UNCHANGED <<X, N, C, y>>

Call_ft_attr_to_inst == Invoke("ft_attr_to_inst", ft_attr_to_inst(X))
Call_ft_cat_to_num == Invoke("ft_cat_to_num", ft_cat_to_num(C, N))
Call_ft_freq_class == Invoke("ft_freq_class", ft_freq_class(y))
Call_ft_inst_to_attr == Invoke("ft_inst_to_attr", ft_inst_to_attr(X))
Call_ft_nr_attr == Invoke("ft_nr_attr", ft_nr_attr(X))
Call_ft_nr_bin == Invoke("ft_nr_bin", ft_nr_bin(X))
Call_ft_nr_cat == Invoke("ft_nr_cat", ft_nr_cat(C))
Call_ft_nr_class == Invoke("ft_nr_class", ft_nr_class(y))
Call_ft_nr_inst == Invoke("ft_nr_inst", ft_nr_inst(X))
Call_ft_nr_num == Invoke("ft_nr_num", ft_nr_num(N))
Call_ft_num_to_cat == Invoke("ft_num_to_cat", ft_num_to_cat(C, N))

Next ==
    \/ Call_ft_attr_to_inst
    \/ Call_ft_cat_to_num
    \/ Call_ft_freq_class
    \/ Call_ft_inst_to_attr
    \/ Call_ft_nr_attr
    \/ Call_ft_nr_bin
    \/ Call_ft_nr_cat
    \/ Call_ft_nr_class
    \/ Call_ft_nr_inst
    \/ Call_ft_nr_num
    \/ Call_ft_num_to_cat

Spec == Init /\ [][Next]_vars

(***************************************************************************)
(* Exact comparisons on floats, used to state the properties below.        *)
(***************************************************************************)
\* v is a / b rounded to a float: zero for a = 0, otherwise within half a
\* unit in the last place of the exact quotient (ints 0 <= a < B, 0 < b < B)
IsRatio(v, a, b) ==
    /\ IsFloat(v)
    /\ IF a = 0 THEN v = FZero
       ELSE /\ v.m # BZero
            /\ v.e <= 0 /\ v.e >= -(MantBits + LimbBits)
            /\ LET twice == BShl(v.m, 1)
                   exact == BShl(BFromInt(a), 1 - v.e)
               IN  /\ BGe(exact, BMulLimb(BSub(twice, BFromInt(1)), b))
                   /\ BGe(BMulLimb(BAdd(twice, BFromInt(1)), b), exact)

\* | u * w - 1 | <= 2^-52 for the exact product of two positive floats
ProductNearOne(u, w) ==
    /\ u.m # BZero /\ w.m # BZero
    /\ LET p == BMul(u.m, w.m)
           n == -(u.e + w.e)
       IN  /\ n \in (2 * MantBits - 2)..(2 * MantBits)
           /\ BGe(BAdd(p, BPow2(n - (MantBits - 1))), BPow2(n))
           /\ BGe(BAdd(BPow2(n), BPow2(n - (MantBits - 1))), p)

\* binary digits after the point kept by ExactSum
SumScale == MantBits + LimbBits

RECURSIVE ExactSum(_)
\* the exact sum of floats in units of 2^-SumScale
ExactSum(vs) ==
    IF vs = <<>> THEN BZero
    ELSE BAdd(BShl(vs[1].m, vs[1].e + SumScale), ExactSum(Tail(vs)))

\* | sum of vs - 1 | <= 2^-53 for the exact sum of floats
SumNearOne(vs) ==
    /\ \A i \in DOMAIN vs : vs[i].m = BZero \/ vs[i].e \in (-SumScale)..(-MantBits + 3)
    /\ LET sum == ExactSum(vs)
           tol == BPow2(SumScale - MantBits)
       IN  /\ BGe(BAdd(sum, tol), BPow2(SumScale))
           /\ BGe(BAdd(BPow2(SumScale), tol), sum)

RECURSIVE FloatSum(_)
\* sum(vs) as Python and numpy add a short sequence of floats: left to right
FloatSum(vs) ==
    IF vs = <<>> THEN FZero
    ELSE FAdd(FloatSum(SubSeq(vs, 1, Len(vs) - 1)), vs[Len(vs)])

\* 0 < v <= 1
InUnitInterval(v) ==
    /\ IsFloat(v)
    /\ v.m # BZero
    /\ v = One \/ v.e < -(MantBits - 1)

\* occurrences of c in y
Count(yy, c) == Cardinality({k \in DOMAIN yy : yy[k] = c})

\* the i-th smallest element of a finite set of ints
IthSmallest(S, i) == CHOOSE x \in S : Cardinality({z \in S : z < x}) = i - 1

\* y with entries i and j exchanged
Swap(yy, i, j) ==
    [k \in DOMAIN yy |-> IF k = i THEN yy[j] ELSE IF k = j THEN yy[i] ELSE yy[k]]

\* the number of columns of A that hold exactly two distinct values
BinaryColumns(A) ==
    Cardinality({j \in 1..Shape1(A) :
                    Cardinality({A.data[i][j] : i \in 1..Shape0(A)}) = 2})

(***************************************************************************)
(* Properties                                                              *)
(***************************************************************************)

\* C1: each of the four ratio features returns nan, and raises nothing,
\* when the dimension it divides by has count 0.
C1_UndefinedRatioIsNaN ==
    /\ (called = "ft_attr_to_inst" /\ Shape0(X) = 0) => ret = NaN
    /\ (called = "ft_inst_to_attr" /\ Shape1(X) = 0) => ret = NaN
    /\ (called = "ft_cat_to_num" /\ Shape1(N) = 0) => ret = NaN
    /\ (called = "ft_num_to_cat" /\ Shape1(C) = 0) => ret = NaN

\* C2 as stated: with at least one instance (and any attribute count),
\* ft_attr_to_inst and ft_inst_to_attr are both defined, the first equals
\* 1 / the second and their product is exactly 1.
C2_ExactReciprocal ==
    (called = "ft_attr_to_inst" /\ Shape0(X) > 0) =>
        LET inv == ft_inst_to_attr(X)
        IN  /\ IsFloat(ret) /\ IsFloat(inv)
            /\ ret = FDiv(One, inv)
            /\ FMul(ret, inv) = One

\* C2 amended: with at least one instance and at least one attribute both
\* ratios are floats and their exact product is within 2^-52 of 1; with no
\* attribute ft_attr_to_inst is 0.0.
C2_ReciprocalUpToRounding ==
    (called = "ft_attr_to_inst" /\ Shape0(X) > 0) =>
        IF Shape1(X) = 0 THEN ret = FZero
        ELSE LET inv == ft_inst_to_attr(X)
             IN  IsFloat(ret) /\ IsFloat(inv) /\ ProductNearOne(ret, inv)

\* 9 attributes on 5 instances: 9/5 is not the float 1 / (5/9)
C2_Witness ==
    /\ called = "ft_attr_to_inst"
    /\ Shape0(X) = 5 /\ Shape1(X) = 9
    /\ ret # FDiv(One, ft_inst_to_attr(X))

\* C3: ft_cat_to_num returns nan exactly when there is no numeric column,
\* and otherwise the ratio #categorical / #numeric, 0 without categorical
\* columns.
C3_CatToNum ==
    called = "ft_cat_to_num" =>
        /\ IsNaN(ret) <=> Shape1(N) = 0
        /\ Shape1(N) # 0 => IsRatio(ret, Shape1(C), Shape1(N))
        /\ (Shape1(N) # 0 /\ Shape1(C) = 0) => ret = FZero

C3_Witness ==
    /\ called = "ft_cat_to_num"
    /\ Shape1(N) = 0 /\ Shape1(C) = 2
    /\ ret = NaN

\* C4: ft_num_to_cat returns nan exactly when there is no categorical
\* column and otherwise #numeric / #categorical; handed the same (C, N) as
\* ft_cat_to_num it gives the opposite ratio.
C4_NumToCat ==
    called = "ft_num_to_cat" =>
        /\ IsNaN(ret) <=> Shape1(C) = 0
        /\ Shape1(C) # 0 => IsRatio(ret, Shape1(N), Shape1(C))
        /\ Shape1(N) # 0 => IsRatio(ft_cat_to_num(C, N), Shape1(C), Shape1(N))

C4_Witness ==
    /\ called = "ft_num_to_cat"
    /\ Shape1(N) = 3 /\ Shape1(C) = 1
    /\ ret = FromInt(3)
    /\ IsRatio(ft_cat_to_num(C, N), 1, 3)

\* C5 as stated: with both counts nonzero ft_cat_to_num equals
\* 1 / ft_num_to_cat and their product is exactly 1.
C5_ExactReciprocal ==
    (called = "ft_cat_to_num" /\ Shape1(C) # 0 /\ Shape1(N) # 0) =>
        LET inv == ft_num_to_cat(C, N)
        IN  /\ IsFloat(ret) /\ IsFloat(inv)
            /\ ret = FDiv(One, inv)
            /\ FMul(ret, inv) = One

\* C5 amended: with both counts nonzero neither ratio is nan and their
\* exact product is within 2^-52 of 1.
C5_ReciprocalUpToRounding ==
    (called = "ft_cat_to_num" /\ Shape1(C) # 0 /\ Shape1(N) # 0) =>
        LET inv == ft_num_to_cat(C, N)
        IN  IsFloat(ret) /\ IsFloat(inv) /\ ProductNearOne(ret, inv)

\* 3 categorical and 11 numeric columns: (3/11) * (11/3) rounds below 1
C5_Witness ==
    /\ called = "ft_cat_to_num"
    /\ Shape1(C) = 3 /\ Shape1(N) = 11
    /\ FMul(ret, ft_num_to_cat(C, N)) # One

\* C6 as stated: the frequencies of a non-empty label vector sum to exactly
\* 1, and an empty vector gives nan.
C6_SumsToExactlyOne ==
    called = "ft_freq_class" =>
        IF Size(y) = 0 THEN ret = NaN
        ELSE IsArray(ret) /\ FloatSum(ret.v) = One

\* C6 amended: the frequencies of a non-empty label vector sum to 1 within
\* 2^-53 (each is the float nearest to count / size, the counts summing to
\* the size), and an empty vector gives nan.
C6_SumsToOneUpToRounding ==
    called = "ft_freq_class" =>
        IF Size(y) = 0 THEN ret = NaN
        ELSE /\ IsArray(ret)
             /\ SumNearOne(ret.v)
             /\ \A i \in DOMAIN ret.v : \E c \in 1..Size(y) : IsRatio(ret.v[i], c, Size(y))

\* labels a,a,b,b,b,c: 2/6 + 3/6 + 1/6 adds up to 0.9999999999999999
C6_Witness ==
    /\ called = "ft_freq_class"
    /\ y = <<1, 1, 2, 2, 2, 3>>
    /\ IsArray(ret)
    /\ FloatSum(ret.v) # One

\* C7: ft_nr_bin returns the number of columns with exactly two distinct
\* values for every matrix, 0 for one without columns or without rows.
C7_CountsBinaryColumns ==
    called = "ft_nr_bin" => ret = PyInt(BinaryColumns(X))

\* C8: with X partitioned into N and C, ft_nr_attr(X) is
\* ft_nr_num(N) + ft_nr_cat(C), and ft_nr_inst(X) is the number of rows.
C8_AttrCountSplits ==
    /\ called = "ft_nr_attr" =>
           /\ IsInt(ret) /\ IsInt(ft_nr_num(N)) /\ IsInt(ft_nr_cat(C))
           /\ ret.v = ft_nr_num(N).v + ft_nr_cat(C).v
    /\ called = "ft_nr_inst" => ret = PyInt(Len(X.data))

\* 10 instances, 3 numeric and 1 categorical attribute
C8_Witness ==
    /\ called = "ft_nr_attr"
    /\ ret = PyInt(4)
    /\ ft_nr_inst(X) = PyInt(10) /\ ft_nr_num(N) = PyInt(3) /\ ft_nr_cat(C) = PyInt(1)

\* C9: for a non-empty label vector ft_freq_class has one value per
\* distinct class, as many as ft_nr_class counts, each class's value being
\* its number of occurrences over the number of instances.
C9_OneFrequencyPerClass ==
    (called = "ft_freq_class" /\ Size(y) > 0) =>
        /\ IsArray(ret)
        /\ ft_nr_class(y) = PyInt(Len(ret.v))
        /\ Len(ret.v) = Cardinality(Range(y))
        /\ \E f \in [Range(y) -> DOMAIN ret.v] :
               /\ \A c, d \in Range(y) : f[c] = f[d] => c = d
               /\ \A c \in Range(y) : IsRatio(ret.v[f[c]], Count(y, c), Size(y))

\* labels a,a,b,c,c,c: three classes with frequencies 2/6, 1/6, 3/6
C9_Witness ==
    /\ called = "ft_freq_class"
    /\ y = <<1, 1, 2, 3, 3, 3>>
    /\ ft_nr_class(y) = PyInt(3)
    /\ ret = Array(<<FDiv(FromInt(2), FromInt(6)), FDiv(One, FromInt(6)),
                     FDiv(FromInt(3), FromInt(6))>>)

\* C10: the i-th entry of ft_freq_class is the frequency of the i-th
\* smallest distinct label, so exchanging two neighbouring entries of the
\* label vector (the exchanges every permutation is made of) leaves the
\* result unchanged, and every entry is in (0, 1].
C10_SortedClassOrder ==
    (called = "ft_freq_class" /\ Size(y) > 0) =>
        /\ IsArray(ret)
        /\ \A i \in DOMAIN ret.v :
               /\ i <= Cardinality(Range(y))
               /\ IsRatio(ret.v[i], Count(y, IthSmallest(Range(y), i)), Size(y))
               /\ InUnitInterval(ret.v[i])
        /\ \A i \in 1..(Size(y) - 1) : ft_freq_class(Swap(y, i, i + 1)) = ret

\* labels c,a,a: the class seen first is not the one listed first
C10_Witness ==
    /\ called = "ft_freq_class"
    /\ y = <<3, 1, 1>>
    /\ ret = Array(<<FDiv(FromInt(2), FromInt(3)), FDiv(One, FromInt(3))>>)

====
